---- MODULE Spec2Model ----
(***************************************************************************)
(* Model of the FastAPI backend in src/main.py: the model gateway          *)
(* (call_ai), the handlers health, analyze_transcript, generate_icebreaker *)
(* and get_feed, and the two store tables they write and read.             *)
(*                                                                         *)
(* Text built by an f-string is a sequence of pieces (template literals    *)
(* and interpolated values); a plain value is a string.  A created_at      *)
(* timestamp is the sequence of its digits, compared as Python compares    *)
(* strings.  A handler is split at its calls to the external services, so  *)
(* that requests served by different workers interleave there.             *)
(***************************************************************************)
EXTENDS Integers, Sequences, FiniteSets

\* ---------------------------------------------------------------- bounds
NumProcs == 2          \* requests in flight at once
MaxReq == 3            \* requests accepted in one run
Slack == 1             \* preloaded tables hold FeedLimit-Slack .. FeedLimit+Slack rows

Procs == 1..NumProcs

\* ------------------------------------------------------- program constants
FeedLimit == 20
ConfigMissingSummary == <<"Error: GROQ_API_KEY not configured. Please set your Groq API key in the .env file.">>
ConfigMissingInsights == <<"AI configuration needed">>
GroqErrorPrefix == "Error calling Groq API: "
UnknownCompany == "Unknown Company"
UnknownUser == "Unknown User"
UnknownRole == "Unknown Role"
NoDeck == "No pitch deck provided"
NullId == 0            \* Python None in the "id" of a response

\* --------------------------------------------------------------- helpers
\* dict.get(key, default)
Get(d, key, default) == IF key \in DOMAIN d THEN d[key] ELSE default

\* Python truthiness of an Optional[str] read from the environment
Truthy(v) == v # "None" /\ v # ""

\* s < t under Python's string comparison (lexicographic on code points)
RECURSIVE StrLess(_, _)
StrLess(s, t) ==
  IF t = <<>> THEN FALSE
  ELSE IF s = <<>> THEN TRUE
  ELSE IF Head(s) < Head(t) THEN TRUE
  ELSE IF Head(s) > Head(t) THEN FALSE
  ELSE StrLess(Tail(s), Tail(t))

StrGeq(s, t) == ~StrLess(s, t)

\* the store's timestamp at clock reading c: inserts arrive at twice the
\* resolution of created_at, so consecutive inserts both tie and differ
Stamp(c) == c \div 2

\* the store's rendering of a timestamp, and its value read back
Fmt(n) == <<n \div 10, n % 10>>
Parse(s) == s[1] * 10 + s[2]

RECURSIVE Reverse(_)
Reverse(s) == IF s = <<>> THEN <<>> ELSE Reverse(Tail(s)) \o <<Head(s)>>

Take(s, n) == SubSeq(s, 1, IF Len(s) < n THEN Len(s) ELSE n)

\* ----------------------------------------------------- environment inputs
GroqKeys == {"None", "", "gsk"}

\* what the external model service does with one request
ModelOutcomes ==
  { [ok |-> TRUE, text |-> "Good job."],
    [ok |-> FALSE, text |-> "Connection error."] }

ModelTexts == { o.text : o \in {x \in ModelOutcomes : x.ok} }
FailureReasons == { o.text : o \in {x \in ModelOutcomes : ~x.ok} }

\* what the store does with one insert: the row comes back, nothing comes
\* back, or the call raises
InsertOutcomes == {"row", "norow", "raise"}
ReadOutcomes == {"ok", "raise"}
StoreError == "store unavailable"

\* JSON bodies of POST /analyze_transcript
TranscriptBodies ==
  { [transcript |-> "Great call, client loved the demo.", company_name |-> "Acme",
     attendees |-> "Bob", date |-> "2024-01-02"],
    [transcript |-> "Great call, client loved the demo."],
    [company_name |-> "Acme"] }

\* JSON bodies of POST /generate_icebreaker
IcebreakerBodies ==
  { [username |-> "Jane", role |-> "CTO", linkedin_bio |-> "..."],
    [role |-> "CTO", linkedin_bio |-> "..."],
    [username |-> "Jane", linkedin_bio |-> "..."],
    [username |-> "Jane", role |-> "CTO"] }

\* ------------------------------------------------------- pydantic models
TranscriptRequestValid(body) == "transcript" \in DOMAIN body

TranscriptRequest(body) ==
  [transcript |-> body.transcript,
   company_name |-> Get(body, "company_name", ""),
   attendees |-> Get(body, "attendees", ""),
   date |-> Get(body, "date", "")]

IcebreakerRequestValid(body) == {"username", "role", "linkedin_bio"} \subseteq DOMAIN body

IcebreakerRequest(body) ==
  [username |-> body.username,
   role |-> body.role,
   linkedin_bio |-> body.linkedin_bio,
   deck_url |-> Get(body, "deck_url", "")]

\* --------------------------------------------------------------- prompts
TranscriptPrompt(data) ==
  <<"Review this transcript for ", data.company_name,
    "Attendees: ", data.attendees,
    "Date: ", data.date,
    "Transcript:", data.transcript,
    "Share: 1. What I did well 2. What I could do better 3. Recommendations">>

IcebreakerPrompt(data) ==
  <<"Prospect Name: ", data.username,
    "Current Role: ", data.role,
    "LinkedIn About Section: ", data.linkedin_bio,
    "Pitch Deck Context: ", IF data.deck_url # "" THEN data.deck_url ELSE NoDeck,
    "1. BUYING SIGNALS", data.username, data.role,
    "2. DISCOVERY TRIGGERS",
    "3. SMART QUESTIONS", data.role,
    "4. PERSONALIZED OUTREACH APPROACH", data.username,
    "5. REFLECTION QUESTIONS", data.username,
    "Make the analysis specific to ", data.username, data.role>>

\* ---------------------------------------------------------- model gateway
NoAnalysis == [summary |-> <<>>, insights |-> <<>>, status |-> "none"]

\* groq_client as set up at import time
GroqClient(key) == IF Truthy(key) THEN "client" ELSE "None"

\* variant: the guard of call_ai written as "GROQ_API_KEY is not None"
CallsGroqKeyNotNone(key, client) == key # "None"

\* whether call_ai reaches groq_client.chat.completions.create
CallsGroq(key, client) == ~(~Truthy(key) \/ client = "None")

\* variant: the except branch of call_ai labels its dict "success"
CallAiErrorAsSuccess(key, client, outcome) ==
  IF ~CallsGroq(key, client)
    THEN [summary |-> ConfigMissingSummary,
          insights |-> ConfigMissingInsights,
          status |-> "error"]
  ELSE IF outcome.ok
    THEN [summary |-> <<outcome.text>>, insights |-> <<>>, status |-> "success"]
  ELSE [summary |-> <<GroqErrorPrefix, outcome.text>>, insights |-> <<>>, status |-> "success"]

\* the dict call_ai returns
CallAi(key, client, outcome) ==
  IF ~CallsGroq(key, client)
    THEN [summary |-> ConfigMissingSummary,
          insights |-> ConfigMissingInsights,
          status |-> "error"]
  ELSE IF outcome.ok
    THEN [summary |-> <<outcome.text>>, insights |-> <<>>, status |-> "success"]
  ELSE [summary |-> <<GroqErrorPrefix, outcome.text>>, insights |-> <<>>, status |-> "error"]

\* ------------------------------------------------------------------ store
\* variant: the handler writes with upsert on a fixed key, so that a second
\* write replaces the newest row
StoreInsertUpsert(table, payload, ts) ==
  LET row == [k \in DOMAIN payload \cup {"id", "created_at"} |->
                IF k = "id" THEN (IF table = <<>> THEN 1 ELSE Len(table))
                ELSE IF k = "created_at" THEN Fmt(ts)
                ELSE payload[k]]
  IN IF table = <<>> THEN <<row>> ELSE [table EXCEPT ![Len(table)] = row]

\* table.insert(payload): the store assigns id and created_at
StoreInsert(table, payload, ts) ==
  Append(table, [k \in DOMAIN payload \cup {"id", "created_at"} |->
                   IF k = "id" THEN Len(table) + 1
                   ELSE IF k = "created_at" THEN Fmt(ts)
                   ELSE payload[k]])

\* rows in descending order of timestamp; rows of equal timestamp keep the
\* order they have in s
RECURSIVE OrderInsert(_, _)
OrderInsert(x, s) ==
  IF s = <<>> THEN <<x>>
  ELSE IF Parse(Head(s).created_at) < Parse(x.created_at) THEN <<x>> \o s
  ELSE <<Head(s)>> \o OrderInsert(x, Tail(s))

RECURSIVE OrderDesc(_, _)
OrderDesc(s, acc) ==
  IF s = <<>> THEN acc ELSE OrderDesc(Tail(s), OrderInsert(Head(s), acc))

\* variant: the select without .limit(n)
StoreSelectUnlimited(table, n, tieRev) ==
  OrderDesc(IF tieRev THEN Reverse(table) ELSE table, <<>>)

\* table.select("*").order("created_at", desc=True).limit(n); the store is
\* free in how it orders rows of equal created_at (tieRev)
StoreSelect(table, n, tieRev) ==
  Take(OrderDesc(IF tieRev THEN Reverse(table) ELSE table, <<>>), n)

\* ------------------------------------------------------------------- feed
TranscriptItem(item) ==
  [id |-> item.id,
   type |-> "transcript",
   title |-> Get(item, "company_name", UnknownCompany),
   description |-> Get(item, "attendees", ""),
   date |-> Get(item, "date", ""),
   analysis |-> Get(item, "analysis", NoAnalysis),
   created_at |-> Get(item, "created_at", <<>>)]

IcebreakerItem(item) ==
  [id |-> item.id,
   type |-> "icebreaker",
   title |-> <<"LinkedIn Icebreaker - ", Get(item, "username", UnknownUser)>>,
   description |-> <<Get(item, "role", UnknownRole), " - Sales Outreach Analysis">>,
   analysis |-> Get(item, "analysis", NoAnalysis),
   created_at |-> Get(item, "created_at", <<>>)]

\* list.sort(key=created_at, reverse=True): descending and stable
RECURSIVE SortInsert(_, _)
SortInsert(x, s) ==
  IF s = <<>> THEN <<x>>
  ELSE IF StrLess(Get(Head(s), "created_at", <<>>), Get(x, "created_at", <<>>)) THEN <<x>> \o s
  ELSE <<Head(s)>> \o SortInsert(x, Tail(s))

RECURSIVE SortFrom(_, _)
SortFrom(s, acc) ==
  IF s = <<>> THEN acc ELSE SortFrom(Tail(s), SortInsert(Head(s), acc))

\* variant: get_feed without the final sort
SortOmitted(s) == s

SortByCreatedAtDesc(s) == SortFrom(s, <<>>)

\* feed_items as get_feed returns them
FeedItems(tdata, idata) ==
  SortByCreatedAtDesc([i \in 1..Len(tdata) |-> TranscriptItem(tdata[i])]
                        \o [i \in 1..Len(idata) |-> IcebreakerItem(idata[i])])

\* ------------------------------------------------------------------ state
VARIABLES
  GROQ_API_KEY,    \* os.getenv("GROQ_API_KEY")
  groq_client,     \* the Groq client, or "None"
  transcripts,     \* rows of the store table "transcripts"
  icebreakers,     \* rows of the store table "icebreakers"
  clock,           \* the store's clock
  req,             \* per request slot: the handler's position and locals
  modelCalls,      \* requests the external model service has received
  nreq             \* requests accepted so far

vars == <<GROQ_API_KEY, groq_client, transcripts, icebreakers, clock, req, modelCalls, nreq>>

NoResp == [code |-> 0]

IdleReq ==
  [kind |-> "none", pc |-> "idle", body |-> <<>>, data |-> <<>>, prompt |-> <<>>,
   analysis |-> NoAnalysis, tdata |-> <<>>, resp |-> NoResp,
   extCalls |-> 0, inserts |-> 0]

\* a slot is free when no handler runs in it
Free(p) == req[p].pc \in {"idle", "done"}

Accept(p) == Free(p) /\ nreq < MaxReq

Init ==
  /\ GROQ_API_KEY \in GroqKeys
  /\ groq_client = GroqClient(GROQ_API_KEY)
  /\ transcripts = <<>>
  /\ icebreakers = <<>>
  /\ clock = 0
  /\ req = [p \in Procs |-> IdleReq]
  /\ modelCalls = 0
  /\ nreq = 0

\* ------------------------------------------------- tables filled earlier
\* the table "transcripts" after n submissions accepted by earlier runs of
\* the server, the i-th with timestamp 2i-1
RECURSIVE PastTranscripts(_)
PastTranscripts(n) ==
  IF n = 0 THEN <<>>
  ELSE StoreInsert(PastTranscripts(n - 1),
                   [company_name |-> IF n % 2 = 0 THEN "Acme" ELSE "",
                    attendees |-> "", date |-> "",
                    transcript |-> "Great call, client loved the demo.",
                    analysis |-> CallAi("gsk", "client", [ok |-> (n % 3 # 0), text |-> IF n % 3 # 0 THEN "Good job." ELSE "Connection error."])],
                   2 * n - 1)

\* the table "icebreakers" after n submissions, the i-th with timestamp 2i
RECURSIVE PastIcebreakers(_)
PastIcebreakers(n) ==
  IF n = 0 THEN <<>>
  ELSE StoreInsert(PastIcebreakers(n - 1),
                   [username |-> "Jane", role |-> "CTO", linkedin_bio |-> "...",
                    deck_url |-> "",
                    analysis |-> CallAi("None", "None", [ok |-> TRUE, text |-> "Good job."])],
                   2 * n)

PastSizes == (FeedLimit - Slack)..(FeedLimit + Slack)

\* a server started on tables that earlier runs have filled around the
\* feed's limit; two requests are left of the budget
InitFeed ==
  /\ GROQ_API_KEY = "gsk"
  /\ groq_client = GroqClient(GROQ_API_KEY)
  /\ \E n \in PastSizes : /\ transcripts = PastTranscripts(n)
                          /\ icebreakers = PastIcebreakers(n)
  /\ clock = 4 * (FeedLimit + Slack)
  /\ req = [p \in Procs |-> IdleReq]
  /\ modelCalls = 0
  /\ nreq = MaxReq - 2

\* GET /
Health(p) ==
  /\ Accept(p)
  /\ req' = [req EXCEPT ![p] = [IdleReq EXCEPT !.kind = "health", !.pc = "done",
                                  !.resp = [code |-> 200, status |-> "ok"]]]
  /\ nreq' = nreq + 1
  /\ UNCHANGED <<GROQ_API_KEY, groq_client, transcripts, icebreakers, clock, modelCalls>>

\* variant: the handler takes the body as a plain dict, without the
\* pydantic model
AnalyzeTranscriptUnvalidated(p, body) ==
  /\ Accept(p)
  /\ LET data == [transcript |-> Get(body, "transcript", ""),
                  company_name |-> Get(body, "company_name", ""),
                  attendees |-> Get(body, "attendees", ""),
                  date |-> Get(body, "date", "")]
     IN req' = [req EXCEPT ![p] =
                  [IdleReq EXCEPT !.kind = "transcript", !.pc = "call_ai", !.body = body,
                                  !.data = data, !.prompt = TranscriptPrompt(data)]]
  /\ nreq' = nreq + 1
  /\ UNCHANGED <<GROQ_API_KEY, groq_client, transcripts, icebreakers, clock, modelCalls>>

\* POST /analyze_transcript: body validation and prompt
AnalyzeTranscript(p, body) ==
  /\ Accept(p)
  /\ req' = [req EXCEPT ![p] =
       IF TranscriptRequestValid(body)
         THEN [IdleReq EXCEPT !.kind = "transcript", !.pc = "call_ai", !.body = body,
                              !.data = TranscriptRequest(body),
                              !.prompt = TranscriptPrompt(TranscriptRequest(body))]
         ELSE [IdleReq EXCEPT !.kind = "transcript", !.pc = "done", !.body = body,
                              !.resp = [code |-> 422]]]
  /\ nreq' = nreq + 1
  /\ UNCHANGED <<GROQ_API_KEY, groq_client, transcripts, icebreakers, clock, modelCalls>>

\* POST /generate_icebreaker: body validation and prompt
GenerateIcebreaker(p, body) ==
  /\ Accept(p)
  /\ req' = [req EXCEPT ![p] =
       IF IcebreakerRequestValid(body)
         THEN [IdleReq EXCEPT !.kind = "icebreaker", !.pc = "call_ai", !.body = body,
                              !.data = IcebreakerRequest(body),
                              !.prompt = IcebreakerPrompt(IcebreakerRequest(body))]
         ELSE [IdleReq EXCEPT !.kind = "icebreaker", !.pc = "done", !.body = body,
                              !.resp = [code |-> 422]]]
  /\ nreq' = nreq + 1
  /\ UNCHANGED <<GROQ_API_KEY, groq_client, transcripts, icebreakers, clock, modelCalls>>

\* variant: call_ai is tried again after a failure of the model service
AwaitCallAiRetry(p, outcome) ==
  /\ req[p].pc = "call_ai"
  /\ LET called == CallsGroq(GROQ_API_KEY, groq_client) IN
       /\ req' = [req EXCEPT ![p].analysis = CallAi(GROQ_API_KEY, groq_client, outcome),
                             ![p].extCalls = @ + (IF called THEN 1 ELSE 0),
                             ![p].pc = IF called /\ ~outcome.ok /\ req[p].extCalls = 0
                                         THEN "call_ai" ELSE "insert"]
       /\ modelCalls' = modelCalls + (IF called THEN 1 ELSE 0)
  /\ UNCHANGED <<GROQ_API_KEY, groq_client, transcripts, icebreakers, clock, nreq>>

\* ai_response = await call_ai(prompt)
AwaitCallAi(p, outcome) ==
  /\ req[p].pc = "call_ai"
  /\ LET called == CallsGroq(GROQ_API_KEY, groq_client) IN
       /\ req' = [req EXCEPT ![p].analysis = CallAi(GROQ_API_KEY, groq_client, outcome),
                             ![p].extCalls = @ + (IF called THEN 1 ELSE 0),
                             ![p].pc = "insert"]
       /\ modelCalls' = modelCalls + (IF called THEN 1 ELSE 0)
  /\ UNCHANGED <<GROQ_API_KEY, groq_client, transcripts, icebreakers, clock, nreq>>

\* variant: the handler raises when the analysis has status "error"
SubmitResponseRaisesOnAiError(analysis, outcome, table) ==
  IF outcome = "raise" \/ analysis.status = "error" THEN [code |-> 500, detail |-> StoreError]
  ELSE [code |-> 200, result |-> analysis,
        id |-> IF outcome = "row" THEN table[Len(table)].id ELSE NullId]

\* variant: the handler swallows the exception of the insert
SubmitResponseSwallowsInsertError(analysis, outcome, table) ==
  [code |-> 200, result |-> analysis,
   id |-> IF outcome = "row" THEN table[Len(table)].id ELSE NullId]

\* the response of a submit handler after its insert
SubmitResponse(analysis, outcome, table) ==
  IF outcome = "raise" THEN [code |-> 500, detail |-> StoreError]
  ELSE [code |-> 200, result |-> analysis,
        id |-> IF outcome = "row" THEN table[Len(table)].id ELSE NullId]

\* supabase.table("transcripts").insert(...).execute() and the return
InsertTranscript(p, outcome) ==
  /\ req[p].pc = "insert"
  /\ req[p].kind = "transcript"
  /\ clock' = IF outcome = "raise" THEN clock ELSE clock + 1
  /\ transcripts' =
       IF outcome = "raise" THEN transcripts
       ELSE StoreInsert(transcripts,
                        [company_name |-> req[p].data.company_name,
                         attendees |-> req[p].data.attendees,
                         date |-> req[p].data.date,
                         transcript |-> req[p].data.transcript,
                         analysis |-> req[p].analysis],
                        Stamp(clock'))
  /\ req' = [req EXCEPT ![p].inserts = @ + 1,
                        ![p].resp = SubmitResponse(req[p].analysis, outcome, transcripts'),
                        ![p].pc = "done"]
  /\ UNCHANGED <<GROQ_API_KEY, groq_client, icebreakers, modelCalls, nreq>>

\* supabase.table("icebreakers").insert(...).execute() and the return
InsertIcebreaker(p, outcome) ==
  /\ req[p].pc = "insert"
  /\ req[p].kind = "icebreaker"
  /\ clock' = IF outcome = "raise" THEN clock ELSE clock + 1
  /\ icebreakers' =
       IF outcome = "raise" THEN icebreakers
       ELSE StoreInsert(icebreakers,
                        [username |-> req[p].data.username,
                         role |-> req[p].data.role,
                         linkedin_bio |-> req[p].data.linkedin_bio,
                         deck_url |-> req[p].data.deck_url,
                         analysis |-> req[p].analysis],
                        Stamp(clock'))
  /\ req' = [req EXCEPT ![p].inserts = @ + 1,
                        ![p].resp = SubmitResponse(req[p].analysis, outcome, icebreakers'),
                        ![p].pc = "done"]
  /\ UNCHANGED <<GROQ_API_KEY, groq_client, transcripts, modelCalls, nreq>>

\* GET /feed: the read of "transcripts"
GetFeedTranscripts(p, outcome, tieRev) ==
  /\ Accept(p)
  /\ req' = [req EXCEPT ![p] =
       IF outcome = "raise"
         THEN [IdleReq EXCEPT !.kind = "feed", !.pc = "done",
                              !.resp = [code |-> 500, detail |-> StoreError]]
         ELSE [IdleReq EXCEPT !.kind = "feed", !.pc = "read_icebreakers",
                              !.tdata = StoreSelect(transcripts, FeedLimit, tieRev)]]
  /\ nreq' = nreq + 1
  /\ UNCHANGED <<GROQ_API_KEY, groq_client, transcripts, icebreakers, clock, modelCalls>>

\* GET /feed: the read of "icebreakers", the mapping, the sort and the return
GetFeedIcebreakers(p, outcome, tieRev) ==
  /\ req[p].pc = "read_icebreakers"
  /\ req' = [req EXCEPT
       ![p].resp =
          IF outcome = "raise" THEN [code |-> 500, detail |-> StoreError]
          ELSE [code |-> 200,
                items |-> FeedItems(req[p].tdata, StoreSelect(icebreakers, FeedLimit, tieRev))],
       ![p].pc = "done"]
  /\ UNCHANGED <<GROQ_API_KEY, groq_client, transcripts, icebreakers, clock, modelCalls, nreq>>

\* the server process dies and restarts: the handlers in flight are gone,
\* the environment and the store stay
Crash ==
  /\ \E p \in Procs : ~Free(p)
  /\ req' = [p \in Procs |-> IF Free(p) THEN req[p] ELSE IdleReq]
  /\ UNCHANGED <<GROQ_API_KEY, groq_client, transcripts, icebreakers, clock, modelCalls, nreq>>

Next ==
  \/ \E p \in Procs : Health(p)
  \/ \E p \in Procs, body \in TranscriptBodies : AnalyzeTranscript(p, body)
  \/ \E p \in Procs, body \in IcebreakerBodies : GenerateIcebreaker(p, body)
  \/ \E p \in Procs, outcome \in ModelOutcomes : AwaitCallAi(p, outcome)
  \/ \E p \in Procs, outcome \in InsertOutcomes : InsertTranscript(p, outcome)
  \/ \E p \in Procs, outcome \in InsertOutcomes : InsertIcebreaker(p, outcome)
  \/ \E p \in Procs, outcome \in ReadOutcomes, tieRev \in BOOLEAN : GetFeedTranscripts(p, outcome, tieRev)
  \/ \E p \in Procs, outcome \in ReadOutcomes, tieRev \in BOOLEAN : GetFeedIcebreakers(p, outcome, tieRev)
  \/ Crash

Spec == Init /\ [][Next]_vars

SpecFeed == InitFeed /\ [][Next]_vars

\* ----------------------------------------------------------- properties
Submits == {"transcript", "icebreaker"}

\* a GET /feed that has returned its items
FeedOk(p) == req[p].kind = "feed" /\ req[p].pc = "done" /\ req[p].resp.code = 200

Items(p) == req[p].resp.items

CountType(items, t) == Cardinality({i \in 1..Len(items) : items[i].type = t})

IsPrefix(s, t) == Len(s) <= Len(t) /\ \A i \in 1..Len(s) : t[i] = s[i]

TablesUnchanged == transcripts' = transcripts /\ icebreakers' = icebreakers

\* C1: the items of every successful getFeed are sorted non-increasing by
\* created_at under string comparison: a.created_at >= b.created_at for
\* every adjacent pair (a, b)
C1_FeedSorted ==
  \A p \in Procs : FeedOk(p) =>
    \A i \in 1..(Len(Items(p)) - 1) :
      StrGeq(Items(p)[i].created_at, Items(p)[i + 1].created_at)

\* a feed of an older transcript and a newer icebreaker, the icebreaker first
C1_Witness ==
  \E p \in Procs :
    /\ FeedOk(p)
    /\ Len(Items(p)) = 2
    /\ Items(p)[1].type = "icebreaker"
    /\ Items(p)[2].type = "transcript"
    /\ StrLess(Items(p)[2].created_at, Items(p)[1].created_at)

\* C2: a successful getFeed returns at most 40 items, at most 20 of type
\* "transcript" and at most 20 of type "icebreaker", however many rows the
\* two tables hold
C2_FeedCapped ==
  \A p \in Procs : FeedOk(p) =>
    /\ Len(Items(p)) <= 40
    /\ CountType(Items(p), "transcript") <= 20
    /\ CountType(Items(p), "icebreaker") <= 20

\* a feed of 20 + 20 items read from tables that hold more than 20 rows each
C2_Witness ==
  \E p \in Procs :
    /\ FeedOk(p)
    /\ Len(transcripts) > 20
    /\ Len(icebreakers) > 20
    /\ Len(req[p].tdata) = 20
    /\ Len(Items(p)) = 40
    /\ CountType(Items(p), "transcript") = 20

\* the step in which the insert of the submit handler in slot p returns
InsertReturns(p) == req[p].pc = "insert" /\ req'[p].pc = "done"

TableOf(p) == IF req[p].kind = "transcript" THEN transcripts ELSE icebreakers

\* C3: when the model call of a submit request has failed (its analysis has
\* status "error") and the insert succeeds, the request ends in a success
\* response that carries that analysis, and a row with that analysis has
\* been added to the request's table
C3_ModelFailurePersisted ==
  [][\A p \in Procs :
       (/\ InsertReturns(p)
        /\ req[p].analysis.status = "error"
        /\ ~TablesUnchanged)
       => /\ req'[p].resp.code = 200
          /\ req'[p].resp.result = req[p].analysis
          /\ req'[p].resp.result.status = "error"
          /\ TableOf(p)' = Append(TableOf(p), TableOf(p)'[Len(TableOf(p)')])
          /\ TableOf(p)'[Len(TableOf(p)')].analysis = req[p].analysis]_vars

\* an icebreaker request answered 200 with the analysis of a failed model
\* call, which is the analysis of the row it names
C3_Witness ==
  \E p \in Procs :
    /\ req[p].kind = "icebreaker"
    /\ req[p].pc = "done"
    /\ req[p].resp.code = 200
    /\ req[p].resp.result.status = "error"
    /\ req[p].resp.result.summary = <<GroqErrorPrefix, "Connection error.">>
    /\ req[p].resp.id # NullId
    /\ icebreakers[req[p].resp.id].analysis = req[p].resp.result

\* C4: when the insert of a submit request raises (no row is written), the
\* request ends in a 500 response that carries the store's message, never
\* in a success response, whatever the model call returned
C4_InsertFailureIs500 ==
  [][\A p \in Procs :
       (InsertReturns(p) /\ TablesUnchanged)
       => /\ req'[p].resp.code = 500
          /\ req'[p].resp.detail = StoreError]_vars

\* two requests answered 500 without a row written, one after a model call
\* that succeeded and one after a model call that failed
C4_Witness ==
  \E p \in Procs, q \in Procs :
    /\ req[p].kind \in Submits /\ req[q].kind \in Submits
    /\ req[p].pc = "done" /\ req[q].pc = "done"
    /\ req[p].inserts = 1 /\ req[q].inserts = 1
    /\ req[p].resp.code = 500 /\ req[q].resp.code = 500
    /\ req[p].analysis.status = "success"
    /\ req[q].analysis.status = "error"
    /\ transcripts = <<>> /\ icebreakers = <<>>

\* the environment sets no usable model key
NoModelKey == GROQ_API_KEY \in {"None", ""}

\* C5: when no model key is configured, every analysis call_ai has returned
\* has status "error", the configuration-missing summary and one insight,
\* and the external model service has received no call
C5_NoKeyNoCall ==
  NoModelKey =>
    /\ modelCalls = 0
    /\ \A p \in Procs :
         (req[p].kind \in Submits /\ req[p].pc \in {"insert", "done"} /\ req[p].resp.code # 422)
         => /\ req[p].analysis.status = "error"
            /\ req[p].analysis.summary = ConfigMissingSummary
            /\ Len(req[p].analysis.insights) = 1
            /\ req[p].extCalls = 0

\* the key is the empty string and two requests have been through call_ai
C5_Witness ==
  /\ GROQ_API_KEY = ""
  /\ \A p \in Procs : req[p].kind \in Submits /\ req[p].pc \in {"insert", "done"}
                        /\ req[p].analysis.status = "error"
  /\ \E p \in Procs : req[p].kind = "transcript"
  /\ \E p \in Procs : req[p].kind = "icebreaker"

\* every analysis call_ai has returned and every analysis in a table
Analyses ==
  {req[p].analysis : p \in {q \in Procs : req[q].analysis # NoAnalysis}}
    \cup {transcripts[i].analysis : i \in 1..Len(transcripts)}
    \cup {icebreakers[i].analysis : i \in 1..Len(icebreakers)}

ErrorSummaries ==
  {ConfigMissingSummary} \cup {<<"Error calling Groq API: ", r>> : r \in FailureReasons}

\* C6: in every analysis returned by call_ai or stored in a table, status
\* "error" implies at most one insight and a summary built by the gateway
\* (the configuration-missing text or the prefixed failure reason), never
\* model output; status "success" implies the summary is the model's output
\* and no insights
C6_AnalysisShape ==
  \A a \in Analyses :
    /\ a.status \in {"success", "error"}
    /\ a.status = "error" =>
         /\ Len(a.insights) <= 1
         /\ a.summary \in ErrorSummaries
         /\ a.summary \notin {<<t>> : t \in ModelTexts}
    /\ a.status = "success" =>
         /\ a.summary \in {<<t>> : t \in ModelTexts}
         /\ a.insights = <<>>

\* the tables hold an analysis of a failed model call and one of a model
\* call that succeeded
C6_Witness ==
  /\ \E i \in 1..Len(transcripts) :
       /\ transcripts[i].analysis.status = "error"
       /\ transcripts[i].analysis.summary = <<GroqErrorPrefix, "Connection error.">>
  /\ \E i \in 1..Len(icebreakers) : icebreakers[i].analysis.status = "success"

\* C7: the feed item of a transcript row whose company_name is the empty
\* string has title "Unknown Company"; the item of a row with a non-empty
\* company_name has that name as title
C7_UnknownCompanyTitle ==
  \A p \in Procs : FeedOk(p) =>
    \A i \in 1..Len(Items(p)) :
      Items(p)[i].type = "transcript" =>
        LET row == transcripts[Items(p)[i].id] IN
          /\ row.company_name = "" => Items(p)[i].title = "Unknown Company"
          /\ row.company_name # "" => Items(p)[i].title = row.company_name

\* the body of the submit request in slot p lacks a required field
LacksRequired(r) ==
  \/ r.kind = "transcript" /\ "transcript" \notin DOMAIN r.body
  \/ r.kind = "icebreaker" /\ \E f \in {"username", "role", "linkedin_bio"} : f \notin DOMAIN r.body

\* C8: a submit request whose body lacks a required field is answered 422
\* at once: it makes no call to the model service and no insert, and the
\* step that takes it leaves the tables unchanged
C8_InvalidRejectedEarly ==
  /\ [](\A p \in Procs :
          LacksRequired(req[p]) =>
            /\ req[p].pc = "done"
            /\ req[p].resp.code = 422
            /\ req[p].extCalls = 0
            /\ req[p].inserts = 0)
  /\ [][\A p \in Procs :
          (req'[p] # req[p] /\ LacksRequired(req'[p]))
          => /\ TablesUnchanged
             /\ modelCalls' = modelCalls]_vars

\* a rejected transcript body and a rejected icebreaker body next to a
\* table that holds a row
C8_Witness ==
  /\ \E p \in Procs : req[p].kind = "transcript" /\ LacksRequired(req[p]) /\ req[p].resp.code = 422
  /\ \E p \in Procs : req[p].kind = "icebreaker" /\ LacksRequired(req[p]) /\ req[p].resp.code = 422
  /\ Len(transcripts) + Len(icebreakers) > 0

\* C9: both tables are append-only: every step keeps every row of either
\* table in place with all its fields, and the steps of health and getFeed
\* leave both tables as they are
C9_AppendOnly ==
  [][/\ IsPrefix(transcripts, transcripts')
     /\ IsPrefix(icebreakers, icebreakers')
     /\ \A p \in Procs :
          (req'[p] # req[p] /\ req'[p].kind \in {"health", "feed"}) => TablesUnchanged]_vars

\* a table holds a row, and a feed that shows it and a health request have
\* been served since
C9_Witness ==
  /\ Len(transcripts) + Len(icebreakers) >= 1
  /\ \E p \in Procs : FeedOk(p) /\ Len(Items(p)) >= 1
  /\ \E p \in Procs : req[p].kind = "health" /\ req[p].pc = "done"

\* C10: in a submit request the model service is called at most once and
\* only before the insert, the insert is issued at most once and only after
\* call_ai has returned, the response is set only by the step in which the
\* insert returns, and a row is written only by such a step (so a request
\* that dies between the model call and the insert leaves no row)
C10_StrictOrder ==
  [][/\ \A p \in Procs :
          /\ req'[p].extCalls > req[p].extCalls =>
               /\ req[p].pc = "call_ai"
               /\ req[p].extCalls = 0
               /\ req[p].inserts = 0
          /\ req'[p].inserts > req[p].inserts =>
               /\ req[p].pc = "insert"
               /\ req[p].inserts = 0
               /\ req[p].analysis # NoAnalysis
          /\ (req[p].pc \in {"call_ai", "insert"} /\ req'[p].resp # NoResp) =>
               /\ req[p].pc = "insert"
               /\ req'[p].inserts = 1
     /\ ~TablesUnchanged =>
          \E p \in Procs : req[p].pc = "insert" /\ req'[p].inserts = 1]_vars

\* one request has gone through model call, insert and response; another
\* has called the model service and died before its insert: two model
\* calls, one row
C10_Witness ==
  /\ modelCalls = 2
  /\ Len(transcripts) + Len(icebreakers) = 1
  /\ \E p \in Procs, q \in Procs :
       /\ req[p].kind \in Submits /\ req[p].pc = "done"
       /\ req[p].resp.code = 200 /\ req[p].extCalls = 1 /\ req[p].inserts = 1
       /\ req[q].pc = "idle" /\ req[q].kind = "none"
  /\ nreq = 2

====
